---- MODULE Spec2Model ----
(***************************************************************************)
(* Model of the English Guru chat client: the session adapter of           *)
(* services/geminiService.ts and the conversation view-model of App.tsx.   *)
(*                                                                         *)
(* Strings are sequences of tokens, so that trimming, concatenation and    *)
(* substring search are computed and not assumed.  React state is the      *)
(* committed value of each hook plus the queue of updater functions that   *)
(* were dispatched from asynchronous code and have not been rendered yet.  *)
(* Handlers of discrete DOM events (click, key, change) are rendered       *)
(* synchronously at the end of the event, so such an action processes the  *)
(* whole queue; updates dispatched after an await wait for Render.         *)
(***************************************************************************)
EXTENDS Naturals, Sequences, FiniteSets, TLC

\* ------------------------------------------------------------------ bounds
MaxTurns  == 2   \* accepted sends in one run
MaxFrags  == 2   \* fragments the streams of one run yield
MaxResets == 1   \* confirmed, successful resets in one run

\* ------------------------------------------------------------ vocabulary
USER  == "USER"
MODEL == "MODEL"

NoId == <<>>

GreetingText      == <<"Hello! I'm your AI English Teacher">>
ResetGreetingText == <<"Conversation reset.">>
ConfigErrorText   == <<"API Key configuration error.">>
GenericErrorText  == <<"Sorry, I encountered an error.">>
UnknownErrorText  == <<"Unknown", " ", "error">>

\* what the user types before the n-th send: blanks, or a sentence of its own
\* with blanks around it
InputValues(n) == { <<" ">>, <<" ", "u" \o ToString(n), " ">> }

\* what the n-th streamed response of a run carries as its text: nothing, or
\* a text no other response carries
Chunks(n) == { <<>>, << "c" \o ToString(n) >> }

\* the value of process.env.API_KEY at load time
ApiKeys == { <<>>, <<"k">> }

MissingKeyError ==
  [hasMessage |-> TRUE, message |-> <<"API_KEY", " is missing.">>, origin |-> "config"]
InitError ==
  [hasMessage |-> TRUE, message |-> <<"init failed">>, origin |-> "init"]
\* what the transport or the service can throw
TransportErrors ==
  { [hasMessage |-> FALSE, message |-> <<>>,                        origin |-> "transport"],
    [hasMessage |-> TRUE,  message |-> <<"network">>,               origin |-> "transport"],
    [hasMessage |-> TRUE,  message |-> <<"reason: ", "API_KEY", "_INVALID">>, origin |-> "transport"] }
NoError == [hasMessage |-> FALSE, message |-> <<>>, origin |-> "none"]

\* ------------------------------------------------------ string functions
IsSpace(ch) == ch = " "

RECURSIVE TrimStart(_)
TrimStart(s) ==
  IF s = <<>> THEN <<>>
  ELSE IF IsSpace(Head(s)) THEN TrimStart(Tail(s)) ELSE s

RECURSIVE TrimEnd(_)
TrimEnd(s) ==
  IF s = <<>> THEN <<>>
  ELSE IF IsSpace(s[Len(s)]) THEN TrimEnd(SubSeq(s, 1, Len(s) - 1)) ELSE s

Trim(s) == TrimEnd(TrimStart(s))

\* JavaScript truthiness of a string value
TruthyString(s) == s # <<>>

Includes(s, tok) == \E i \in 1..Len(s) : s[i] = tok

\* ----------------------------------------------------------- the program
GenerateId(prefix, n) == <<prefix, n>>

NewMessage(id, role, text, isError) ==
  [id |-> id, role |-> role, text |-> text, isError |-> isError]

\* the test left out: onChunk for every chunk
ChunkHasTextAlways(c) == TRUE

\* if (c.text): the chunk's text is not empty
ChunkHasText(c) == TruthyString(c)

\* last write wins: accumulatedText = chunk
AccumulateLastWins(acc, chunk) == chunk

\* accumulatedText += chunk
Accumulate(acc, chunk) == acc \o chunk

\* error?.message || "Unknown error"
ErrorMessageOf(e) ==
  IF e.hasMessage /\ TruthyString(e.message) THEN e.message ELSE UnknownErrorText

\* every failure classified as a generic one
DisplayErrorAlwaysGeneric(e) == GenericErrorText

\* errorMessage.includes("API_KEY") ? ... : ...
DisplayError(e) ==
  IF Includes(ErrorMessageOf(e), "API_KEY") THEN ConfigErrorText ELSE GenericErrorText

\* a bubble for every chunk: the aiMessageId test left out
ChunkUpdaterAlwaysNew(st, acc) ==
  LET id == GenerateId("ai", st.nid)
  IN [msgs |-> Append(st.msgs, NewMessage(id, MODEL, acc, FALSE)),
      aiId |-> id,
      nid  |-> st.nid + 1]

\* The updater queued by onChunk, run on the state st = [msgs, aiId, nid]
\* with the closure's accumulated text as it is when the updater runs.
ChunkUpdater(st, acc) ==
  IF st.aiId = NoId
  THEN LET id == GenerateId("ai", st.nid)
       IN [msgs |-> Append(st.msgs, NewMessage(id, MODEL, acc, FALSE)),
           aiId |-> id,
           nid  |-> st.nid + 1]
  ELSE [st EXCEPT !.msgs =
          [i \in 1..Len(st.msgs) |->
             IF st.msgs[i].id = st.aiId
             THEN [st.msgs[i] EXCEPT !.text = acc]
             ELSE st.msgs[i]]]

\* the other variant: the error replaces the bubble in progress
ErrorUpdaterInPlace(st, text) ==
  IF st.aiId = NoId
  THEN [st EXCEPT !.msgs = Append(st.msgs,
                        NewMessage(GenerateId("error", st.nid), MODEL, text, TRUE)),
                  !.nid  = st.nid + 1]
  ELSE [st EXCEPT !.msgs =
          [i \in 1..Len(st.msgs) |->
             IF st.msgs[i].id = st.aiId
             THEN [st.msgs[i] EXCEPT !.text = text, !.isError = TRUE]
             ELSE st.msgs[i]]]

\* The updater queued by the catch block
ErrorUpdater(st, text) ==
  [st EXCEPT !.msgs = Append(st.msgs,
                        NewMessage(GenerateId("error", st.nid), MODEL, text, TRUE)),
             !.nid  = st.nid + 1]

ApplyUpdate(st, u, acc) ==
  IF u.kind = "chunk" THEN ChunkUpdater(st, acc) ELSE ErrorUpdater(st, u.text)

RECURSIVE ApplyQueue(_, _, _)
ApplyQueue(st, q, acc) ==
  IF q = <<>> THEN st
  ELSE ApplyQueue(ApplyUpdate(st, Head(q), acc), Tail(q), acc)

VARIABLES
  messages,        \* useState<Message[]>, committed
  inputValue,      \* useState(''), committed
  isLoading,       \* useState(false), committed
  queue,           \* setMessages updaters dispatched and not yet rendered
  pendLoading,     \* setIsLoading(false) dispatched and not yet rendered
  apiKey,          \* module constant of the adapter
  chatInstance,    \* module variable of the adapter, 0 is null
  nextHandle,      \* handles created so far + 1
  pc,              \* where the one send handler is
  aiMessageId,     \* local of the send handler
  accumulatedText, \* local of the send handler
  rejection,       \* the error the adapter's promise rejected with
  nextId,          \* source of fresh ids
  mounted,         \* the mount effect has run
  unhandled,       \* an error left the send handler
  \* history variables
  fragsUsed,       \* chunks the streams have yielded in this run
  consumed,        \* chunks the streaming loop has taken in this turn
  onChunkLog,      \* arguments of the onChunk calls of this turn
  streamError,     \* the error the stream raised in this turn
  turns,           \* sends accepted in this run
  hist,            \* one record per send accepted since the last reset
  resets,          \* confirmed resets that replaced the messages
  netCalls,        \* calls of chatInstance.sendMessageStream
  sentTo,          \* the handle the last outbound call was made on, 0 is none
  inFlight,        \* adapter calls not yet settled
  lastEvent        \* the last step taken

vars == << messages, inputValue, isLoading, queue, pendLoading, apiKey,
           chatInstance, nextHandle, pc, aiMessageId, accumulatedText,
           rejection, nextId, mounted, unhandled, fragsUsed, consumed, onChunkLog,
           streamError, turns, hist, resets, netCalls, sentTo, inFlight, lastEvent >>

adapterVars == << apiKey, chatInstance, nextHandle >>
turnGhost   == << fragsUsed, consumed, onChunkLog, streamError >>

\* the view-model state as a record the updaters work on
ViewState == [msgs |-> messages, aiId |-> aiMessageId, nid |-> nextId]

\* the view-model state once every dispatched updater has been rendered
Flushed == ApplyQueue(ViewState, queue, accumulatedText)

Init ==
  /\ messages = <<>>
  /\ inputValue = <<>>
  /\ isLoading = FALSE
  /\ queue = <<>>
  /\ pendLoading = FALSE
  /\ apiKey \in ApiKeys
  /\ chatInstance = 0
  /\ nextHandle = 1
  /\ pc = "idle"
  /\ aiMessageId = NoId
  /\ accumulatedText = <<>>
  /\ rejection = NoError
  /\ nextId = 1
  /\ mounted = FALSE
  /\ unhandled = FALSE
  /\ fragsUsed = 0
  /\ consumed = <<>>
  /\ onChunkLog = <<>>
  /\ streamError = NoError
  /\ turns = 0
  /\ hist = <<>>
  /\ resets = 0
  /\ netCalls = 0
  /\ sentTo = 0
  /\ inFlight = 0
  /\ lastEvent = "init"

\* useEffect(..., []): initializeChat(), then the greeting unless messages exist
Mount(initThrows) ==
  /\ ~mounted
  /\ mounted' = TRUE
  /\ IF initThrows
     THEN UNCHANGED << messages, nextId, chatInstance, nextHandle >>
     ELSE /\ chatInstance' = nextHandle
          /\ nextHandle' = nextHandle + 1
          /\ IF Len(messages) > 0
             THEN UNCHANGED << messages, nextId >>
             ELSE /\ messages' = << NewMessage(GenerateId("init", nextId), MODEL,
                                               GreetingText, FALSE) >>
                  /\ nextId' = nextId + 1
  /\ lastEvent' = IF initThrows THEN "mountThrew" ELSE "mount"
  /\ UNCHANGED << inputValue, isLoading, queue, pendLoading, apiKey, pc,
                  aiMessageId, accumulatedText, rejection, unhandled,
                  turnGhost, turns, hist, resets, netCalls, sentTo, inFlight >>

\* what a render commits: every queued updater, and the pending busy flag
RenderCommit ==
  /\ messages' = Flushed.msgs
  /\ aiMessageId' = Flushed.aiId
  /\ nextId' = Flushed.nid
  /\ queue' = <<>>
  /\ isLoading' = IF pendLoading THEN FALSE ELSE isLoading
  /\ pendLoading' = FALSE

\* a render scheduled by updates that were dispatched outside an event
Render ==
  /\ pc # "rejected"
  /\ queue # <<>> \/ pendLoading
  /\ RenderCommit
  /\ lastEvent' = "render"
  /\ UNCHANGED << inputValue, adapterVars, pc, accumulatedText, rejection,
                  mounted, unhandled, turnGhost, turns, hist, resets, netCalls, sentTo, inFlight >>

\* onChange of the textarea
SetInput(v) ==
  /\ mounted
  /\ pc # "rejected"
  /\ v # inputValue
  /\ inputValue' = v
  /\ RenderCommit
  /\ lastEvent' = "input"
  /\ UNCHANGED << adapterVars, pc, accumulatedText, rejection, mounted,
                  unhandled, turnGhost, turns, hist, resets, netCalls, sentTo, inFlight >>


\* a live handle kept instead of a new one created
InitializeChatReuse == IF chatInstance # 0 THEN chatInstance ELSE nextHandle

\* ai.chats.create(...): the handle the module variable is set to
InitializeChat == nextHandle

\* the credential test left out
AdapterCallNoKeyCheck(initThrows) ==
  IF chatInstance = 0 /\ initThrows
  THEN /\ pc' = "rejected"
       /\ rejection' = InitError
       /\ UNCHANGED << chatInstance, nextHandle, netCalls, sentTo >>
  ELSE /\ IF chatInstance = 0
          THEN /\ chatInstance' = InitializeChat
               /\ nextHandle' = nextHandle + 1
          ELSE UNCHANGED << chatInstance, nextHandle >>
       /\ netCalls' = netCalls + 1
       /\ sentTo' = chatInstance'
       /\ pc' = "streaming"
       /\ rejection' = NoError

\* The synchronous part of sendMessageStream, up to its first await:
\* the credential check, the lazy initialization, the outbound call.
AdapterCall(initThrows) ==
  IF ~TruthyString(apiKey)
  THEN /\ pc' = "rejected"
       /\ rejection' = MissingKeyError
       /\ UNCHANGED << chatInstance, nextHandle, netCalls, sentTo >>
  ELSE IF chatInstance = 0 /\ initThrows
  THEN /\ pc' = "rejected"
       /\ rejection' = InitError
       /\ UNCHANGED << chatInstance, nextHandle, netCalls, sentTo >>
  ELSE /\ IF chatInstance = 0
          THEN /\ chatInstance' = InitializeChat
               /\ nextHandle' = nextHandle + 1
          ELSE UNCHANGED << chatInstance, nextHandle >>
       /\ netCalls' = netCalls + 1
       /\ sentTo' = chatInstance'
       /\ pc' = "streaming"
       /\ rejection' = NoError

\* the busy test left out of the guard
SendGuardNoBusy == TruthyString(Trim(inputValue))

\* if (!inputValue.trim() || isLoading) return;
SendGuard == TruthyString(Trim(inputValue)) /\ ~isLoading

\* the part of handleSendMessage that runs inside the event
AcceptSend(initThrows) ==
  /\ turns < MaxTurns
  /\ turns' = turns + 1
  /\ LET userText == Trim(inputValue)
         userMessage == NewMessage(GenerateId("user", nextId), USER, userText, FALSE)
         st == ApplyQueue([msgs |-> messages, aiId |-> aiMessageId, nid |-> nextId + 1],
                          queue, accumulatedText)
     IN /\ inputValue' = <<>>
        /\ messages' = Append(st.msgs, userMessage)
        /\ nextId' = st.nid
        /\ hist' = Append(hist, [user |-> userText, status |-> "inflight",
                                 reply |-> <<>>, chunks |-> 0, resetDuring |-> FALSE])
  /\ queue' = <<>>
  /\ isLoading' = TRUE
  /\ pendLoading' = FALSE
  /\ aiMessageId' = NoId
  /\ accumulatedText' = <<>>
  /\ consumed' = <<>>
  /\ onChunkLog' = <<>>
  /\ streamError' = NoError
  /\ inFlight' = inFlight + 1
  /\ AdapterCall(initThrows)
  /\ lastEvent' = "sendAccepted"
  /\ UNCHANGED << apiKey, mounted, unhandled, resets, fragsUsed >>

\* handleSendMessage, from the send button (disabled unless the guard holds)
\* or from the Enter key (always delivered)
SendRequest(via, initThrows) ==
  /\ mounted
  /\ pc # "rejected"
  /\ via = "button" => SendGuard
  /\ IF SendGuard
     THEN AcceptSend(initThrows)
     ELSE /\ lastEvent' = "sendIgnored"
          /\ UNCHANGED << messages, inputValue, isLoading, queue, pendLoading,
                          adapterVars, pc, aiMessageId, accumulatedText, rejection,
                          nextId, mounted, unhandled, turnGhost, turns, hist, resets,
                          netCalls, sentTo, inFlight >>

\* one iteration of the for-await loop: if (c.text) onChunk(c.text)
NextChunk(c) ==
  /\ pc = "streaming"
  /\ fragsUsed < MaxFrags
  /\ fragsUsed' = fragsUsed + 1
  /\ consumed' = Append(consumed, c)
  /\ IF ChunkHasText(c)
     THEN /\ accumulatedText' = Accumulate(accumulatedText, c)
          /\ queue' = Append(queue, [kind |-> "chunk", text |-> <<>>])
          /\ onChunkLog' = Append(onChunkLog, c)
     ELSE UNCHANGED << accumulatedText, queue, onChunkLog >>
  /\ hist' = [hist EXCEPT ![Len(hist)] =
                [@ EXCEPT !.reply  = @ \o c,
                          !.chunks = IF c # <<>> THEN @ + 1 ELSE @]]
  /\ lastEvent' = "chunk"
  /\ UNCHANGED << messages, inputValue, isLoading, pendLoading, adapterVars, pc,
                  aiMessageId, rejection, nextId, mounted, unhandled, streamError,
                  turns, resets, netCalls, sentTo, inFlight >>

CloseTurn(status) ==
  hist' = [hist EXCEPT ![Len(hist)] = [@ EXCEPT !.status = status]]

\* the busy flag never cleared
FinallySkipped == pendLoading' = pendLoading

\* finally { setIsLoading(false) }
Finally == pendLoading' = TRUE

\* the stream is exhausted: the promise resolves and the finally block runs
StreamEnd ==
  /\ pc = "streaming"
  /\ pc' = "idle"
  /\ Finally
  /\ inFlight' = inFlight - 1
  /\ CloseTurn("ok")
  /\ consumed' = <<>>
  /\ onChunkLog' = <<>>
  /\ lastEvent' = "end"
  /\ UNCHANGED << messages, inputValue, isLoading, queue, adapterVars, aiMessageId,
                  accumulatedText, rejection, nextId, mounted, unhandled, fragsUsed,
                  streamError, turns, resets, netCalls, sentTo >>

\* the outbound call or the stream throws: the adapter logs and rethrows
StreamFail(e) ==
  /\ pc = "streaming"
  /\ pc' = "rejected"
  /\ rejection' = e
  /\ streamError' = e
  /\ lastEvent' = "fail"
  /\ UNCHANGED << messages, inputValue, isLoading, queue, pendLoading, adapterVars,
                  aiMessageId, accumulatedText, nextId, mounted, unhandled, fragsUsed,
                  consumed, onChunkLog, turns, hist, resets, netCalls, sentTo, inFlight >>

\* catch (error) { ... } finally { setIsLoading(false) } of handleSendMessage
HandleRejection ==
  /\ pc = "rejected"
  /\ queue' = Append(queue, [kind |-> "error", text |-> DisplayError(rejection)])
  /\ Finally
  /\ unhandled' = FALSE
  /\ pc' = "idle"
  /\ inFlight' = inFlight - 1
  /\ CloseTurn("failed")
  /\ rejection' = NoError
  /\ streamError' = NoError
  /\ consumed' = <<>>
  /\ onChunkLog' = <<>>
  /\ lastEvent' = "catch"
  /\ UNCHANGED << messages, inputValue, isLoading, adapterVars, aiMessageId,
                  accumulatedText, nextId, mounted, fragsUsed, turns, resets, netCalls, sentTo >>

\* the greeting appended to the history instead of replacing it
ResetMessagesAppend(st) ==
  Append(st.msgs, NewMessage(GenerateId("reset", st.nid), MODEL, ResetGreetingText, FALSE))

\* the argument of setMessages in handleReset
ResetMessages(st) ==
  << NewMessage(GenerateId("reset", st.nid), MODEL, ResetGreetingText, FALSE) >>

\* the answer to the prompt not looked at, and the new greeting set before
\* the session is initialized
ResetWithoutPrompt(confirmed, initThrows) ==
  /\ mounted
  /\ pc # "rejected"
  /\ resets < MaxResets
  /\ IF initThrows
     THEN UNCHANGED << chatInstance, nextHandle >>
     ELSE /\ chatInstance' = InitializeChat
          /\ nextHandle' = nextHandle + 1
  /\ LET st == Flushed
     IN /\ messages' = ResetMessages(st)
        /\ aiMessageId' = st.aiId
        /\ nextId' = st.nid + 1
  /\ queue' = <<>>
  /\ isLoading' = IF pendLoading THEN FALSE ELSE isLoading
  /\ pendLoading' = FALSE
  /\ inputValue' = <<>>
  /\ resets' = resets + 1
  /\ hist' = IF pc = "streaming"
             THEN << [hist[Len(hist)] EXCEPT !.resetDuring = TRUE] >>
             ELSE <<>>
  /\ lastEvent' = IF ~confirmed THEN "resetDeclined"
                  ELSE IF initThrows THEN "resetThrew" ELSE "resetOk"
  /\ UNCHANGED << apiKey, pc, accumulatedText, rejection, mounted, unhandled,
                  turnGhost, turns, netCalls, sentTo, inFlight >>

\* handleReset: window.confirm, initializeChat, the new greeting, the input
Reset(confirmed, initThrows) ==
  /\ mounted
  /\ pc # "rejected"
  /\ IF ~confirmed
     THEN /\ lastEvent' = "resetDeclined"
          /\ UNCHANGED << messages, inputValue, isLoading, queue, pendLoading,
                          chatInstance, nextHandle, aiMessageId, nextId, resets, hist >>
     ELSE IF initThrows
     THEN /\ lastEvent' = "resetThrew"
          /\ UNCHANGED << messages, inputValue, isLoading, queue, pendLoading,
                          chatInstance, nextHandle, aiMessageId, nextId, resets, hist >>
     ELSE /\ resets < MaxResets
          /\ chatInstance' = InitializeChat
          /\ nextHandle' = nextHandle + 1
          /\ LET st == Flushed
             IN /\ messages' = ResetMessages(st)
                /\ aiMessageId' = st.aiId
                /\ nextId' = st.nid + 1
          /\ queue' = <<>>
          /\ isLoading' = IF pendLoading THEN FALSE ELSE isLoading
          /\ pendLoading' = FALSE
          /\ inputValue' = <<>>
          /\ resets' = resets + 1
          /\ hist' = IF pc = "streaming"
                     THEN << [hist[Len(hist)] EXCEPT !.resetDuring = TRUE] >>
                     ELSE <<>>
          /\ lastEvent' = "resetOk"
  /\ UNCHANGED << apiKey, pc, accumulatedText, rejection, mounted, unhandled,
                  turnGhost, turns, netCalls, sentTo, inFlight >>

Next ==
  \/ \E t \in BOOLEAN : Mount(t)
  \/ Render
  \/ \E v \in InputValues(turns + 1) : SetInput(v)
  \/ \E via \in {"button", "enter"}, t \in BOOLEAN : SendRequest(via, t)
  \/ \E c \in Chunks(fragsUsed + 1) : NextChunk(c)
  \/ StreamEnd
  \/ \E e \in TransportErrors : StreamFail(e)
  \/ HandleRejection
  \/ \E ok \in BOOLEAN, t \in BOOLEAN : Reset(ok, t)

Spec == Init /\ [][Next]_vars

\* The continuation of a settled promise is a microtask and a scheduled render
\* is a task of the event loop: both run once they are due.
FairSpec == Spec /\ WF_vars(Render) /\ WF_vars(HandleRejection)

TypeOK ==
  /\ isLoading \in BOOLEAN
  /\ pc \in {"idle", "streaming", "rejected"}
  /\ inFlight \in 0..1
  /\ turns <= MaxTurns


\* ------------------------------------------------------------ vocabulary
\* of the properties
Last(q) == q[Len(q)]

IsPrefix(a, b) == Len(a) <= Len(b) /\ SubSeq(b, 1, Len(a)) = a

\* every dispatched update is rendered and no call is in flight
Quiet == pc = "idle" /\ queue = <<>> /\ ~pendLoading

IsGreeting(m) ==
  m.role = MODEL /\ ~m.isError /\ m.text \in {GreetingText, ResetGreetingText}

HasGreeting == Len(messages) >= 1 /\ IsGreeting(messages[1])

\* every send since the last reset has resolved without error, none of them
\* cut by a reset
AllResolved ==
  \A i \in 1..Len(hist) : hist[i].status = "ok" /\ ~hist[i].resetDuring

\* the greeting, then one (USER, MODEL) pair per send, in submission order
PairsInOrder ==
  /\ Len(messages) = 1 + 2 * Len(hist)
  /\ \A i \in 1..Len(hist) :
       /\ messages[2 * i].role = USER
       /\ messages[2 * i].text = hist[i].user
       /\ ~messages[2 * i].isError
       /\ messages[2 * i + 1].role = MODEL
       /\ messages[2 * i + 1].text = hist[i].reply
       /\ ~messages[2 * i + 1].isError

\* C1 as stated: after N successful sends from the mounted state the list is
\* the greeting and N (USER, MODEL) pairs in submission order, whatever the
\* streams delivered.
C1_Original ==
  (Quiet /\ resets = 0 /\ HasGreeting /\ AllResolved) => PairsInOrder

\* C1 amended: after N successful sends, each of whose streams delivered at
\* least one non-empty fragment, the list is the greeting followed by N
\* (USER, MODEL) pairs in submission order, 1 + 2N records.
C1_SuccessfulSends ==
  (Quiet /\ HasGreeting /\ AllResolved /\ \A i \in 1..Len(hist) : hist[i].chunks > 0)
    => PairsInOrder

C1_Witness ==
  /\ Quiet /\ resets = 0 /\ HasGreeting /\ AllResolved
  /\ Len(hist) = 2
  /\ \A i \in 1..Len(hist) : hist[i].chunks > 0
  /\ Len(messages) = 5
  /\ messages[2].text # messages[4].text

\* the streamed bubbles of the turn in progress: what follows the last USER
\* record and is no error record
RECURSIVE LastUserIndex(_)
LastUserIndex(ms) ==
  IF ms = <<>> THEN 0
  ELSE IF Last(ms).role = USER THEN Len(ms)
  ELSE LastUserIndex(SubSeq(ms, 1, Len(ms) - 1))

TurnBubbles ==
  SelectSeq(SubSeq(messages, LastUserIndex(messages) + 1, Len(messages)),
            LAMBDA m : m.role = MODEL /\ ~m.isError)

ChunkPending == \E i \in 1..Len(queue) : queue[i].kind = "chunk"

C2_State ==
  (hist # <<>> /\ ~Last(hist).resetDuring) =>
     /\ Len(TurnBubbles) <= 1
     /\ \A i \in 1..Len(TurnBubbles) :
          /\ TurnBubbles[i].text # <<>>
          /\ IsPrefix(TurnBubbles[i].text, Last(hist).reply)
     /\ (~ChunkPending /\ Last(hist).chunks > 0) =>
          /\ Len(TurnBubbles) = 1
          /\ TurnBubbles[1].text = Last(hist).reply

C2_Step ==
  \A i \in 1..Len(messages) :
    (i <= Len(messages') /\ messages'[i].id = messages[i].id)
      => IsPrefix(messages[i].text, messages'[i].text)

\* C2: in a turn that no reset cuts, whatever the interleaving of fragment
\* arrivals and renders, at most one MODEL bubble exists for the turn, its
\* text is always the concatenation of a prefix of the non-empty fragments
\* delivered so far, it never shrinks, and once every update is rendered it
\* is the concatenation of all of them.
C2_Reconciliation == [](C2_State) /\ [][C2_Step]_vars

C2_Witness ==
  /\ pc = "idle" /\ hist # <<>> /\ ~Last(hist).resetDuring
  /\ Last(hist).chunks = 2
  /\ ~ChunkPending
  /\ Len(TurnBubbles) = 1
  /\ Len(TurnBubbles[1].text) = 2

UserCount(ms) == Len(SelectSeq(ms, LAMBDA m : m.role = USER))

C3_Step ==
  /\ isLoading =>
       /\ turns' = turns
       /\ netCalls' = netCalls
       /\ inFlight' <= inFlight
       /\ UserCount(messages') <= UserCount(messages)
  /\ lastEvent' = "sendIgnored" =>
       /\ messages' = messages /\ queue' = queue /\ inputValue' = inputValue
       /\ isLoading' = isLoading /\ pc' = pc /\ chatInstance' = chatInstance

\* C3: while busy, a send request from the button or the Enter key changes
\* nothing: no USER record, no adapter call; at most one call is in flight.
C3_SendGuard == [](inFlight <= 1) /\ [][C3_Step]_vars

C3_Witness ==
  /\ lastEvent = "sendIgnored"
  /\ isLoading
  /\ pc = "streaming"
  /\ TruthyString(Trim(inputValue))
  /\ inFlight = 1


IdsOf(ms) == { ms[i].id : i \in 1..Len(ms) }

\* the step of the catch block appends one record to everything dispatched
AppendsOne(before, after) ==
  /\ Len(after) = Len(before) + 1
  /\ SubSeq(after, 1, Len(before)) = before
  /\ Last(after).id \notin IdsOf(before)

C4_State ==
  apiKey = <<>> =>
    /\ netCalls = 0
    /\ fragsUsed = 0
    /\ consumed = <<>> /\ onChunkLog = <<>>
    /\ pc # "streaming"
    /\ Quiet => ~isLoading

C4_Step ==
  apiKey = <<>> =>
    /\ turns' # turns =>
         /\ chatInstance' = chatInstance /\ nextHandle' = nextHandle
         /\ pc' = "rejected"
         /\ AppendsOne(Flushed.msgs, messages')
         /\ Last(messages').role = USER /\ Last(messages').text = Trim(inputValue)
         /\ queue' = <<>>
    /\ pc = "rejected" =>
         /\ pc' = "idle"
         /\ AppendsOne(messages, Flushed'.msgs)
         /\ Last(Flushed'.msgs).role = MODEL
         /\ Last(Flushed'.msgs).isError
         /\ Last(Flushed'.msgs).text = ConfigErrorText
         /\ pendLoading'

\* C4: with no credential an accepted send reaches neither the remote service
\* nor onChunk, creates no session handle, and adds after the USER record one
\* MODEL record with isError and the configuration text; busy is false once
\* that is rendered.
C4_MissingCredential == [](C4_State) /\ [][C4_Step]_vars

C4_Witness ==
  /\ apiKey = <<>> /\ Quiet /\ ~isLoading
  /\ Len(hist) = 1 /\ hist[1].status = "failed"
  /\ HasGreeting /\ Len(messages) = 3
  /\ messages[2].role = USER
  /\ messages[3].isError /\ messages[3].text = ConfigErrorText
  /\ netCalls = 0

C5_Step ==
  /\ (pc = "rejected" /\ pc' = "idle") =>
       /\ AppendsOne(Flushed.msgs, Flushed'.msgs)
       /\ Last(Flushed'.msgs).role = MODEL
       /\ Last(Flushed'.msgs).isError
       /\ \A i \in 1..Len(Flushed.msgs) :
            Flushed.msgs[i].id = Flushed.aiId => ~Flushed'.msgs[i].isError
       /\ pendLoading'
       /\ inFlight' = 0
  /\ (pendLoading /\ ~pendLoading') => (~isLoading' /\ messages' # <<>> /\ pc' = "idle")

\* C5: when the adapter call rejects, before or after fragments, one MODEL
\* record with isError is appended after everything dispatched so far, every
\* earlier record (the partly streamed bubble included) stays as it is, the
\* handler is idle again and busy is false once that is rendered.
C5_StreamFailure == [](Quiet => ~isLoading) /\ [][C5_Step]_vars

C5_Witness ==
  /\ lastEvent = "catch"
  /\ Last(hist).status = "failed" /\ Last(hist).chunks >= 1
  /\ LET ms == Flushed.msgs
     IN /\ Len(ms) >= 3
        /\ ms[Len(ms)].isError
        /\ ms[Len(ms) - 1].role = MODEL /\ ~ms[Len(ms) - 1].isError
        /\ ms[Len(ms) - 1].text = Last(hist).reply
        /\ ms[Len(ms) - 2].role = USER

Kind(m) == IF m.role = USER THEN "U" ELSE IF m.isError THEN "E" ELSE "A"

Body == IF HasGreeting THEN Tail(messages) ELSE messages

\* USER and MODEL records alternate, a last USER record only while busy
Paired(b) ==
  /\ \A i \in 1..Len(b) : b[i].role = IF i % 2 = 1 THEN USER ELSE MODEL
  /\ Len(b) % 2 = 1 => isLoading

\* C6 as stated: after the greeting the records are (USER, MODEL) pairs, then
\* at most one USER record without reply, and that only while busy.
C6_Original == Paired(Body)

\* a reset cut the oldest turn still in the history
CutByReset == hist # <<>> /\ hist[1].resetDuring

UserTexts(b) ==
  LET us == SelectSeq(b, LAMBDA m : m.role = USER)
  IN [i \in 1..Len(us) |-> us[i].text]

SentTexts(h) == [i \in 1..Len(h) |-> h[i].user]

\* every turn of the history is in flight or resolved with a bubble
Undisturbed ==
  \A i \in 1..Len(hist) :
    /\ ~hist[i].resetDuring
    /\ hist[i].status # "failed"
    /\ hist[i].status = "ok" => hist[i].chunks > 0

\* C6 amended: after the greeting the records are the turns in submission
\* order, each a USER record followed by at most one streamed MODEL record
\* and then at most one error record; only the turn a reset cut may have left
\* its MODEL and error record right after the reset greeting, without USER
\* record.  While no turn failed, none resolved without a non-empty fragment
\* and no reset cut a turn, the records are (USER, MODEL) pairs with at most
\* one USER record without reply at the end, and that only while busy.
C6_Sequence ==
  LET b == Body
  IN /\ \A i \in 1..Len(b) :
          /\ Kind(b[i]) = "A" =>
               \/ i = 1 /\ CutByReset /\ HasGreeting
               \/ i > 1 /\ Kind(b[i - 1]) = "U"
          /\ Kind(b[i]) = "E" =>
               \/ i = 1 /\ CutByReset /\ HasGreeting
               \/ i > 1 /\ Kind(b[i - 1]) \in {"U", "A"}
     /\ UserTexts(b) = SentTexts(IF CutByReset THEN Tail(hist) ELSE hist)
     /\ (Undisturbed /\ HasGreeting) => (Paired(b) /\ Len(b) \in {2 * Len(hist) - 1, 2 * Len(hist)})

C6_Witness ==
  /\ Undisturbed /\ HasGreeting
  /\ Len(hist) = 2 /\ hist[2].status = "inflight"
  /\ Len(Body) = 3
  /\ isLoading

OneGreeting ==
  /\ Len(messages) = 1
  /\ IsGreeting(messages[1])
  /\ inputValue = <<>>

Settling == pc \in {"streaming", "rejected"} /\ pc' = "idle"

C8_Step ==
  /\ (~isLoading /\ isLoading') => turns' = turns + 1
  /\ turns' # turns =>
       /\ TruthyString(Trim(inputValue)) /\ ~isLoading
       /\ isLoading' /\ ~pendLoading'
  /\ (isLoading /\ ~isLoading') => (pendLoading /\ pc = "idle")
  /\ pendLoading' # pendLoading => (Settling \/ (pendLoading /\ ~isLoading'))
  /\ Settling => pendLoading'
  /\ (isLoading /\ pc # "idle") => isLoading'

\* C8: busy becomes true exactly when a send is accepted (non-blank input,
\* not busy) and stays true while the adapter call is pending; once the call
\* has resolved or rejected, the missing-credential rejection included, busy
\* becomes false; nothing else changes busy.
C8_BusyLifecycle ==
  /\ [][C8_Step]_vars
  /\ (isLoading /\ pc # "streaming") ~> ~isLoading

C8_Witness ==
  /\ turns = 2
  /\ Len(hist) = 2
  /\ hist[1].status = "ok" /\ hist[2].status = "failed"
  /\ ~isLoading
  /\ Quiet

NonEmpty(cs) == SelectSeq(cs, LAMBDA c : c # <<>>)

C9_State ==
  /\ pc \in {"streaming", "rejected"} => onChunkLog = NonEmpty(consumed)
  /\ (pc = "rejected" /\ netCalls > 0 /\ rejection.origin = "transport")
       => rejection = streamError
  /\ streamError # NoError => pc = "rejected"

C9_Step ==
  /\ (pc = "streaming" /\ consumed' # consumed /\ pc' = "streaming") =>
       \E c \in Chunks(fragsUsed + 1) :
         /\ consumed' = Append(consumed, c)
         /\ onChunkLog' = IF c # <<>> THEN Append(onChunkLog, c) ELSE onChunkLog
         /\ accumulatedText' = accumulatedText \o c
  /\ (pc = "streaming" /\ pc' = "idle") =>
       (Last(hist').status = "ok" /\ Last(hist').reply = accumulatedText)
  /\ (pc = "streaming" /\ pc' = "rejected") =>
       /\ rejection' \in TransportErrors
       /\ rejection' = streamError'
       /\ onChunkLog' = onChunkLog /\ consumed' = consumed
  /\ pc = "rejected" =>
       /\ accumulatedText' = accumulatedText
       /\ ~\E i \in 1..Len(queue') : i > Len(queue) /\ queue'[i].kind = "chunk"
       /\ Last(hist').status = "failed"

\* C9: the adapter calls onChunk once for each non-empty fragment and never
\* for an empty one, in arrival order and before it takes the next fragment;
\* it resolves only when the stream is exhausted; when the stream fails the
\* calls made stay made, none follows, and the promise rejects with the
\* error the stream raised.
C9_Delivery == [](C9_State) /\ [][C9_Step]_vars

C9_Witness ==
  /\ pc = "rejected"
  /\ Len(consumed) = 2 /\ Len(onChunkLog) = 1
  /\ consumed[1] = <<>>
  /\ rejection = streamError /\ streamError \in TransportErrors

ShownFor(after) == Last(after).text

\* C10 as stated: an error of the transport or the service is shown with the
\* generic text whatever its message; the configuration text is shown for the
\* missing credential only; no error leaves the handler.
C10_Original ==
  [][ (pc = "rejected" /\ pc' = "idle") =>
        /\ rejection.origin = "transport" => ShownFor(Flushed'.msgs) = GenericErrorText
        /\ ShownFor(Flushed'.msgs) = ConfigErrorText => rejection.origin = "config"
        /\ ~unhandled' ]_vars

MentionsKey(e) == \E i \in 1..Len(e.message) : e.message[i] = "API_KEY"

C10_Step ==
  (pc = "rejected" /\ pc' = "idle") =>
     /\ Last(Flushed'.msgs).isError
     /\ ShownFor(Flushed'.msgs) =
          IF MentionsKey(rejection) THEN ConfigErrorText ELSE GenericErrorText
     /\ rejection.origin = "config" => ShownFor(Flushed'.msgs) = ConfigErrorText
     /\ (apiKey # <<>> /\ ~MentionsKey(rejection))
          => ShownFor(Flushed'.msgs) = GenericErrorText
     /\ ~unhandled'

\* C10 amended: an error raised while a credential is configured is caught
\* and shown with the generic text unless its message contains API_KEY; the
\* configuration text is shown for the missing-credential error and for any
\* other error whose message contains API_KEY; no error leaves the handler.
C10_Classification == [](~unhandled) /\ [][C10_Step]_vars

C10_Witness ==
  /\ lastEvent = "catch"
  /\ apiKey # <<>>
  /\ queue # <<>> /\ Last(queue).kind = "error"
  /\ Last(queue).text = GenericErrorText
  /\ Last(hist).chunks = 1


C11_Step ==
  /\ lastEvent' = "resetDeclined" =>
       /\ chatInstance' = chatInstance
       /\ messages' = messages /\ queue' = queue
       /\ inputValue' = inputValue
       /\ isLoading' = isLoading /\ pendLoading' = pendLoading
  /\ lastEvent' = "resetThrew" =>
       /\ messages' = messages /\ queue' = queue
       /\ inputValue' = inputValue
  /\ resets' # resets => lastEvent' = "resetOk"

\* C11: a reset whose prompt is declined changes neither the session handle
\* nor the messages, the pending input or the busy flag; a confirmed reset
\* whose session initialization throws leaves the messages and the pending
\* input as they are; only a confirmed reset replaces the messages.
C11_ResetConfirmation == [][C11_Step]_vars

C11_Witness ==
  /\ lastEvent = "resetDeclined"
  /\ Len(messages) >= 3
  /\ TruthyString(inputValue)
  /\ isLoading
  /\ chatInstance # 0
  /\ resets = 0

\* the turns submitted after the last reset
TurnsAfterReset == IF CutByReset THEN Tail(hist) ELSE hist

\* C12: after a confirmed reset the messages are the reset greeting followed
\* only by records of turns submitted after the reset: the first record after
\* the greeting, if any, is the USER record of the first such turn, and
\* without such a turn there is no record after the greeting, whatever the
\* turn in flight at the reset goes on to deliver.
C12_Isolation ==
  resets > 0 =>
    /\ HasGreeting
    /\ messages[1].text = ResetGreetingText
    /\ TurnsAfterReset = <<>> => Body = <<>>
    /\ TurnsAfterReset # <<>> =>
         /\ Body # <<>>
         /\ Body[1].role = USER
         /\ Body[1].text = TurnsAfterReset[1].user

\* no send was accepted since the last reset was confirmed
FirstSinceReset == hist = <<>> \/ Last(hist).resetDuring

C13_State ==
  /\ chatInstance = nextHandle - 1
  /\ sentTo <= chatInstance
  /\ netCalls > 0 => sentTo # 0

C13_Step ==
  /\ chatInstance' # chatInstance =>
       /\ chatInstance' = nextHandle
       /\ nextHandle' = nextHandle + 1
  /\ (resets' # resets \/ (~mounted /\ mounted' /\ messages' # <<>>)) =>
       /\ chatInstance' # chatInstance
       /\ chatInstance' # 0
  /\ turns' # turns =>
       /\ chatInstance' # chatInstance =>
            chatInstance = 0 /\ TruthyString(apiKey)
       /\ netCalls' # netCalls =>
            /\ TruthyString(apiKey)
            /\ chatInstance' # 0
            /\ sentTo' = chatInstance'
            /\ (~FirstSinceReset /\ sentTo # 0) => sentTo' = sentTo
            /\ (FirstSinceReset /\ resets > 0) => sentTo' # sentTo
       /\ netCalls' = netCalls => sentTo' = sentTo
  /\ turns' = turns => sentTo' = sentTo

\* C13: the adapter holds one handle, the latest one created; initialization
\* (at mount and at a confirmed reset) always puts a handle never used before
\* in its place; a send creates a handle only when there is none and the
\* credential is present, and otherwise leaves the handle alone; the outbound
\* call goes to the handle the adapter holds, which for consecutive sends
\* without a reset in between is the same handle, and for the first send after
\* a reset is a handle no earlier send went to.
C13_HandleLifecycle == []C13_State /\ [][C13_Step]_vars

C13_Witness ==
  /\ resets = 1
  /\ netCalls = 2
  /\ Len(hist) = 1
  /\ ~hist[1].resetDuring
  /\ sentTo = chatInstance
  /\ sentTo = 2

\* the positions of the USER records, in order
UserIndexes(ms) ==
  SelectSeq([i \in 1..Len(ms) |-> i], LAMBDA i : ms[i].role = USER)

\* a send whose stream resolved without a non-empty fragment, its USER record
\* still in the list
ZeroFragment(t) == t.status = "ok" /\ t.chunks = 0 /\ ~t.resetDuring

C14_State ==
  LET ui  == UserIndexes(messages)
      off == IF CutByReset THEN 1 ELSE 0
  IN /\ Len(ui) = Len(hist) - off
     /\ \A i \in 1..Len(hist) :
          ZeroFragment(hist[i]) =>
            LET p == ui[i - off]
            IN /\ messages[p].text = hist[i].user
               /\ IF i = Len(hist)
                  THEN /\ Len(messages) = p
                       /\ queue = <<>>
                       /\ isLoading => pendLoading
                  ELSE /\ messages[p + 1].role = USER
                       /\ messages[p + 1].text = hist[i + 1].user

\* C14: when the stream of an accepted send resolves without having delivered
\* a non-empty fragment, the turn leaves only its USER record: that record is
\* the last of the list with no update waiting, the clearing of the busy flag
\* is dispatched, and the USER record of the next accepted send comes directly
\* after it.
C14_ZeroFragment == []C14_State

C14_Witness ==
  /\ Len(hist) = 2
  /\ ZeroFragment(hist[1])
  /\ fragsUsed >= 1
  /\ HasGreeting
  /\ Len(messages) = 3
  /\ messages[2].role = USER /\ messages[2].text = hist[1].user
  /\ messages[3].role = USER /\ messages[3].text = hist[2].user
  /\ hist[2].status = "inflight"
  /\ hist[2].reply = <<>>

====
